---- MODULE Spec2Model ----
(***************************************************************************)
(* The AI Model Router (model-router/index.js): provider registry,         *)
(* automatic selection by score, dispatch with fallback, and the periodic  *)
(* health checks.  Providers are numbered by their position in the         *)
(* registry (the insertion order of Object.entries(this.models)); 0 stands *)
(* for undefined/null.                                                     *)
(***************************************************************************)
EXTENDS Integers, Sequences, FiniteSets, TLC

\* ------------------------------------------------------------- bounds
\* Outbound calls one generateContent call may issue: an attempt can fail only
\* while fewer than MaxAttempts have been issued (the code sets no limit).
MaxAttempts == 4

\* ------------------------------------------------------------- inputs
\* Task types a caller may send (type defaults to 'general').
RequestTypes == {"general", "conversation", "analysis", "text-generation", "specialized"}
\* prompt.length: one value per class of selectOptimalModel's length test.
PromptLengths == {100, 700, 1500}
\* `model` values a caller may send: 'auto', a registered key, an unknown key.
UnknownModel == "nosuch"
\* A `model` value that is no registered key but a property every object
\* inherits from Object.prototype (this.models is an object literal).
InheritedKey == "toString"

\* A config without max_tokens (hfHub has max_new_tokens): undefined.
Undefined == -1

VARIABLES
  models,     \* this.models: the registry, a sequence of descriptors
  isHealthy,  \* model.isHealthy of every registered provider
  tick,       \* checkModelHealth: 0 = not running, i = probe of provider i in flight
  lastProbe,  \* the probe that answered last: [model, status]
  req,        \* the generateContent calls in flight, one record per request
  selection,  \* the last direct call of selectOptimalModel: [type, plen, result]
  lastHealthCheck,  \* model.lastHealthCheck, relative to the start of the latest
                    \* run of checkModelHealth: "before" it or "during" it
  windows,    \* the rate limiter's stored window of every caller: [age, count]
  admission,  \* the request in the rate-limiting middleware: [ip, status, found]
  recent,     \* per caller, the calls admitted less than 60 s ago: {[ago, n]}
  batch,      \* prompts.length of the POST /batch/generate being handled
  interval,   \* the timer of setInterval(checkModelHealth, 30000) is active
  healthCheckInterval,  \* this.healthCheckInterval of services/model-router.js
  stopCalled,  \* stopHealthChecks() has returned since the last start
  loadBalancer,  \* per provider, its RoundRobinLoadBalancer: [endpoints, currentIndex]
  returned,   \* the endpoints a load balancer has returned so far, in order
  poll        \* a call of RunPodProxy.pollForCompletion: [pc, maxAttempts, attempt, seen, outcome]

vars == <<models, isHealthy, tick, lastProbe, req, selection, lastHealthCheck,
          windows, admission, recent, batch, interval, healthCheckInterval,
          stopCalled, loadBalancer, returned, poll>>

limiterVars == <<windows, admission, recent>>
timerVars == <<interval, healthCheckInterval, stopCalled>>
componentVars == <<loadBalancer, returned, poll>>

\* The generateContent calls the model follows (Init starts with one slot).
Requests == DOMAIN req

\* ------------------------------------------------------------- registry
\* initializeModels(): gemma3, chatterbox, hfHub, all healthy at construction.
\* The descriptors of this registry carry no priority field (priority 0).
InitializeModels ==
  << [key |-> "gemma3", name |-> "Google Gemma 3",
      capabilities |-> {"text-generation", "code-generation", "analysis"},
      max_tokens |-> 2048, priority |-> 0],
     [key |-> "chatterbox", name |-> "Chatterbox AI",
      capabilities |-> {"conversation", "roleplay", "character-interaction"},
      max_tokens |-> 4096, priority |-> 0],
     [key |-> "hfHub", name |-> "Hugging Face Hub",
      capabilities |-> {"text-generation", "specialized-tasks"},
      max_tokens |-> Undefined, priority |-> 0] >>

Providers(ms) == 1..Len(ms)

\* Mutant of GetNextEndpoint: the index is not advanced.
GetNextEndpoint_SameIndex(lb) ==
  [endpoint |-> lb.endpoints[lb.currentIndex + 1], balancer |-> lb]

\* new RoundRobinLoadBalancer(endpoints).
NewBalancer(endpoints) == [endpoints |-> endpoints, currentIndex |-> 0]

\* getNextEndpoint(): the endpoint returned and the balancer afterwards
\* (this.endpoints is indexed from 0, a sequence from 1).
GetNextEndpoint(lb) ==
  [endpoint |-> lb.endpoints[lb.currentIndex + 1],
   balancer |-> [lb EXCEPT !.currentIndex = (lb.currentIndex + 1) % Len(lb.endpoints)]]

\* The load balancers of a registry: initializeModels gives every provider a
\* balancer over its one endpoint (named after the provider here).
Balancers(ms) == [p \in Providers(ms) |-> NewBalancer(<<ms[p].key>>)]

\* What this.models[key] holds for an inherited key: a value that is no
\* descriptor (a function of Object.prototype), numbered after the providers.
NotADescriptor(ms) == Len(ms) + 1

\* this.models[key]: the provider registered under key, the inherited value
\* for an inherited key, 0 (undefined) if there is neither.
Lookup(ms, key) ==
  IF \E i \in Providers(ms) : ms[i].key = key
  THEN CHOOSE i \in Providers(ms) : ms[i].key = key
  ELSE IF key = InheritedKey THEN NotADescriptor(ms)
  ELSE 0

\* ------------------------------------------------------------- selection
\* Mutant of Score: the base score of 5 is left out.
Score_NoBase(m, type, plen) ==
    (IF type \in m.capabilities THEN 20 ELSE 0)
  + (IF m.key = "chatterbox" /\ type = "conversation" THEN 15 ELSE 0)
  + (IF m.key = "gemma3" /\ type = "analysis" THEN 10 ELSE 0)
  + (IF m.key = "hfHub" /\ type = "specialized" THEN 10 ELSE 0)
  + (IF plen > 1000 /\ m.max_tokens # Undefined /\ m.max_tokens > 2048 THEN 5 ELSE 0)
  + (IF plen < 500 /\ m.max_tokens # Undefined /\ m.max_tokens <= 1024 THEN 3 ELSE 0)

\* The score selectOptimalModel gives a healthy provider m for (type, prompt).
Score(m, type, plen) ==
    (IF type \in m.capabilities THEN 20 ELSE 0)
  + (IF m.key = "chatterbox" /\ type = "conversation" THEN 15 ELSE 0)
  + (IF m.key = "gemma3" /\ type = "analysis" THEN 10 ELSE 0)
  + (IF m.key = "hfHub" /\ type = "specialized" THEN 10 ELSE 0)
  + (IF plen > 1000 /\ m.max_tokens # Undefined /\ m.max_tokens > 2048 THEN 5 ELSE 0)
  + (IF plen < 500 /\ m.max_tokens # Undefined /\ m.max_tokens <= 1024 THEN 3 ELSE 0)
  + 5

\* Mutant of SelectLoop: bestScore is never updated, so every healthy provider
\* replaces the one chosen before it.
RECURSIVE SelectLoop_ScoreNotKept(_, _, _, _, _, _, _)
SelectLoop_ScoreNotKept(ms, h, type, plen, i, bestModel, bestScore) ==
  IF i > Len(ms) THEN bestModel
  ELSE IF ~h[i] THEN SelectLoop_ScoreNotKept(ms, h, type, plen, i + 1, bestModel, bestScore)
  ELSE IF Score(ms[i], type, plen) > bestScore
       THEN SelectLoop_ScoreNotKept(ms, h, type, plen, i + 1, i, bestScore)
       ELSE SelectLoop_ScoreNotKept(ms, h, type, plen, i + 1, bestModel, bestScore)

\* The for loop of selectOptimalModel from provider i on.
RECURSIVE SelectLoop(_, _, _, _, _, _, _)
SelectLoop(ms, h, type, plen, i, bestModel, bestScore) ==
  IF i > Len(ms) THEN bestModel
  ELSE IF ~h[i] THEN SelectLoop(ms, h, type, plen, i + 1, bestModel, bestScore)
  ELSE LET score == Score(ms[i], type, plen) IN
       IF score > bestScore
       THEN SelectLoop(ms, h, type, plen, i + 1, i, score)
       ELSE SelectLoop(ms, h, type, plen, i + 1, bestModel, bestScore)

\* Mutant of SelectOptimalModel: providers with a call in flight are passed
\* over while another healthy provider is free.
SelectOptimalModel_AvoidsBusy(ms, h, type, plen) ==
  LET busy == {req[q].cur : q \in {q \in DOMAIN req : req[q].pc = "calling"}}
      free == [i \in DOMAIN h |-> h[i] /\ i \notin busy]
      bestFree == SelectLoop(ms, free, type, plen, 1, 0, 0)
      bestModel == SelectLoop(ms, h, type, plen, 1, 0, 0) IN
  IF bestFree # 0 THEN bestFree
  ELSE IF bestModel # 0 THEN bestModel ELSE Lookup(ms, "gemma3")

\* selectOptimalModel(type, prompt): bestModel || this.models.gemma3.
SelectOptimalModel(ms, h, type, plen) ==
  LET bestModel == SelectLoop(ms, h, type, plen, 1, 0, 0) IN
  IF bestModel # 0 THEN bestModel ELSE Lookup(ms, "gemma3")

\* findFallbackModel(selectedModel): the providers it may return.  The method
\* is called but not defined in the repository; by the specification the
\* fallback is a healthy provider other than the one excluded, and there is
\* none (0) only when no such provider is left.
FindFallbackModel(ms, h, m) ==
  LET candidates == {i \in Providers(ms) : i # m /\ h[i]} IN
  IF candidates = {} THEN {0} ELSE candidates

\* ------------------------------------------------------------- rate limiter
\* new RateLimiterRedis({ points: 100, duration: 60 }): the requests a caller
\* may make per window, and the length of the window in seconds.
\* Mutant of Points: the ceiling is configured twice as high.
Points_Doubled == 2 * 100

\* Mutant of Points: the ceiling is configured one too high.
Points_OneMore == 100 + 1

Points == 100

\* Mutant of Duration: the window is configured twice as long.
Duration_TwoMinutes == 2 * 60

Duration == 60

\* req.ip of the callers the model follows.
Callers == {"ip1", "ip2"}

\* Seconds that can pass between two events at the limiter.
ElapseSteps == {31}

\* No window is stored for a caller.
NoWindow == [age |-> 0, count |-> 0]

\* The limiter itself (the rate-limiter-flexible package) is not part of the
\* repository; Expired, Consumes and Consumed follow the specification's
\* fixed-window limiter.  The stored window w is over when its start is more
\* than the window length in the past.
Expired(w) == w.age > Duration

\* consume(key) resolves: no live window is stored, or its count is below the
\* ceiling.
Consumes(w) == w = NoWindow \/ Expired(w) \/ w.count < Points

\* The window stored after consume(key) found w: a new window of count 1, the
\* live window with its count raised, or the full window as it was.
Consumed(w) ==
  IF w = NoWindow \/ Expired(w) THEN [age |-> 0, count |-> 1]
  ELSE IF w.count < Points THEN [w EXCEPT !.count = @ + 1]
  ELSE w

\* Mutant of MiddlewareStatus: the catch block also calls next().
MiddlewareStatus_AlwaysNext(consumed) == "next"

\* The middleware: await consume(req.ip); next() -- or, in the catch block,
\* res.status(429).json({ error: 'Too Many Requests', ... }).
MiddlewareStatus(consumed) == IF consumed THEN "next" ELSE "429"

NoAdmission == [ip |-> "none", status |-> "none", found |-> NoWindow]

\* A request of caller ip enters the middleware, which calls consume(req.ip).
Enter(ip) ==
  /\ admission.status # "pending"
  /\ admission' = [ip |-> ip, status |-> "pending", found |-> NoWindow]
  /\ UNCHANGED <<componentVars, models, isHealthy, tick, lastProbe, req, selection,
                 lastHealthCheck, windows, batch, timerVars>>

\* consume answers: the request is passed on, or answered with 429.
RateLimit ==
  LET ip == admission.ip
      w == windows[ip] IN
  /\ admission.status = "pending"
  /\ windows' = [windows EXCEPT ![ip] = Consumed(w)]
  /\ admission' = [ip |-> ip, status |-> MiddlewareStatus(Consumes(w)), found |-> w]
  /\ UNCHANGED <<componentVars, models, isHealthy, tick, lastProbe, req, selection,
                 lastHealthCheck, batch, timerVars>>

\* d seconds pass: every stored window is d seconds older (ages beyond the
\* window length are not told apart).
Elapse(d) ==
  /\ windows' = [ip \in Callers |->
                   IF windows[ip] = NoWindow THEN NoWindow
                   ELSE [windows[ip] EXCEPT
                           !.age = IF @ + d > Duration THEN Duration + 1 ELSE @ + d]]
  /\ UNCHANGED <<componentVars, models, isHealthy, tick, lastProbe, req, selection,
                 lastHealthCheck, admission, batch, timerVars>>

\* ------------------------------------------------------------- requests
IdleRequest ==
  [pc |-> "idle", pin |-> "auto", model |-> "auto", type |-> "general",
   plen |-> 0, cur |-> 0, trace |-> <<>>, named |-> "none", result |-> "none"]

\* Mutant of NoneInvoking: other steps run between the steps of the
\* synchronous part.
NoneInvoking_Interleaved == TRUE

\* Mutant of NoneInvoking: nothing else runs while a request is in flight.
NoneInvoking_NoneInFlight == \A q \in Requests : req[q].pc = "idle"

\* The synchronous part of generateContent (selection, health test, issue of
\* the call, and the recursion into the fallback) runs without interleaving:
\* nothing else runs while a request is inside it.
NoneInvoking == \A q \in Requests : req[q].pc # "invoke"

\* The providers this call has issued an outbound request to, in order.
RECURSIVE Attempts(_)
Attempts(trace) ==
  IF trace = <<>> THEN <<>>
  ELSE IF trace[1].called THEN <<trace[1].model>> \o Attempts(Tail(trace))
  ELSE Attempts(Tail(trace))

\* POST /generate: generateContent(prompt, {model, type, ...options}).
Arrive(r, model, type, plen) ==
  /\ req[r].pc = "idle"
  /\ NoneInvoking
  /\ req' = [req EXCEPT ![r] =
               [pc |-> "invoke", pin |-> model, model |-> model, type |-> type,
                plen |-> plen, cur |-> 0, trace |-> <<>>, named |-> "none", result |-> "none"]]
  /\ UNCHANGED <<componentVars, models, isHealthy, tick, lastProbe, selection,
               lastHealthCheck, limiterVars, batch, timerVars>>

\* Mutant of SelectedModel: the `model` option is ignored and every request is
\* selected automatically.
SelectedModel_AlwaysAuto(r) ==
  SelectOptimalModel(models, isHealthy, req[r].type, req[r].plen)

\* selectedModel of the running invocation of generateContent.
SelectedModel(r) ==
  IF req[r].model = "auto"
  THEN SelectOptimalModel(models, isHealthy, req[r].type, req[r].plen)
  ELSE Lookup(models, req[r].model)

\* Mutant of FallbackKey: the recursive call is given the key of the model
\* that was selected, not of its fallback.
FallbackKey_OfSelected(ms, selected, fallback) == ms[selected].key

\* The `model` option of the recursive call: the key of the fallback model.
FallbackKey(ms, selected, fallback) == ms[fallback].key

\* Mutant of HealthTest: the health test is left out.
HealthTest_Skipped(h, s) == TRUE

\* The health test of generateContent: selectedModel.isHealthy (undefined,
\* so false, on a value that is no descriptor).
HealthTest(h, s) == s \in DOMAIN h /\ h[s]

\* if (!selectedModel) throw new Error(`Model ${model} not found`).
ModelNotFound(r) ==
  /\ req[r].pc = "invoke"
  /\ SelectedModel(r) = 0
  /\ req' = [req EXCEPT ![r].pc = "done", ![r].result = "not found"]
  /\ UNCHANGED <<componentVars, models, isHealthy, tick, lastProbe, selection,
               lastHealthCheck, limiterVars, batch, timerVars>>

\* if (!selectedModel.isHealthy): recurse into the fallback, or throw.
SelectedUnhealthy(r) ==
  LET s == SelectedModel(r) IN
  /\ req[r].pc = "invoke"
  /\ s # 0
  /\ ~HealthTest(isHealthy, s)
  /\ \E fb \in FindFallbackModel(models, isHealthy, s) :
       req' = [req EXCEPT
                 ![r].trace = Append(@, [model |-> s, called |-> FALSE]),
                 ![r].model = IF fb # 0 THEN FallbackKey(models, s, fb) ELSE @,
                 ![r].pc = IF fb # 0 THEN "invoke" ELSE "done",
                 ![r].result = IF fb # 0 THEN @ ELSE "No healthy models available"]
  /\ UNCHANGED <<componentVars, models, isHealthy, tick, lastProbe, selection,
               lastHealthCheck, limiterVars, batch, timerVars>>

\* selectedModel is healthy: axios.post(endpoint + '/v1/completions', ...).
IssueCall(r) ==
  LET s == SelectedModel(r) IN
  /\ req[r].pc = "invoke"
  /\ s # 0
  /\ HealthTest(isHealthy, s)
  /\ req' = [req EXCEPT
               ![r].trace = Append(@, [model |-> s, called |-> TRUE]),
               ![r].cur = s,
               ![r].pc = "calling"]
  /\ loadBalancer' = [loadBalancer EXCEPT ![s] = GetNextEndpoint(@).balancer]
  /\ UNCHANGED <<returned, poll, models, isHealthy, tick, lastProbe, selection,
               lastHealthCheck, limiterVars, batch, timerVars>>

\* Mutant of Answering: the result is built from the provider the request
\* selected or pinned first.
Answering_FirstSelected(r) == req[r].trace[1].model

\* selectedModel of the invocation of generateContent whose call returned.
Answering(r) == req[r].cur

\* processResponse(model, response): the `model` field of the result.
ProcessResponse(model) == model.name

\* The call answers: return this.processResponse(selectedModel, response.data).
CallSucceeds(r) ==
  /\ req[r].pc = "calling"
  /\ NoneInvoking
  /\ req' = [req EXCEPT ![r].pc = "done", ![r].result = "ok",
                        ![r].named = ProcessResponse(models[Answering(r)])]
  /\ UNCHANGED <<componentVars, models, isHealthy, tick, lastProbe, selection,
               lastHealthCheck, limiterVars, batch, timerVars>>

\* Mutant of MarkFailed: the catch block marks every provider.
MarkFailed_EveryProvider(h, m) == [p \in DOMAIN h |-> FALSE]

\* Mutant of MarkFailed: the catch block does not mark the provider.
MarkFailed_Skipped(h, m) == h

\* The health flags after the catch block marked provider m.
MarkFailed(h, m) == [h EXCEPT ![m] = FALSE]

\* Mutant of Retries: the catch block never recurses, it throws at once.
Retries_Never(fb) == FALSE

\* if (fallbackModel) in the catch block: recurse into the fallback.
Retries(fb) == fb # 0

\* Mutant of CallFails: the catch block also strips the capabilities of the
\* provider it marks.
CallFails_AltersDescriptor(r) ==
  LET s == req[r].cur
      h == MarkFailed(isHealthy, s) IN
  /\ req[r].pc = "calling"
  /\ NoneInvoking
  /\ Len(Attempts(req[r].trace)) < MaxAttempts
  /\ isHealthy' = h
  /\ models' = [models EXCEPT ![s].capabilities = {}]
  /\ \E fb \in FindFallbackModel(models, h, s) :
       req' = [req EXCEPT
                 ![r].model = IF Retries(fb) THEN FallbackKey(models, s, fb) ELSE @,
                 ![r].pc = IF Retries(fb) THEN "invoke" ELSE "done",
                 ![r].result = IF Retries(fb) THEN @ ELSE "All models unavailable"]
  /\ UNCHANGED <<componentVars, tick, lastProbe, selection,
                 lastHealthCheck, limiterVars, batch, timerVars>>

\* The call fails (timeout, non-2xx status, network error, or processResponse
\* throwing inside the try block): the catch block marks the provider and
\* recurses into the fallback, or throws.
CallFails(r) ==
  LET s == req[r].cur
      h == MarkFailed(isHealthy, s) IN
  /\ req[r].pc = "calling"
  /\ NoneInvoking
  /\ Len(Attempts(req[r].trace)) < MaxAttempts
  /\ isHealthy' = h
  /\ \E fb \in FindFallbackModel(models, h, s) :
       req' = [req EXCEPT
                 ![r].model = IF Retries(fb) THEN FallbackKey(models, s, fb) ELSE @,
                 ![r].pc = IF Retries(fb) THEN "invoke" ELSE "done",
                 ![r].result = IF Retries(fb) THEN @ ELSE "All models unavailable"]
  /\ UNCHANGED <<componentVars, models, tick, lastProbe, selection,
               lastHealthCheck, limiterVars, batch, timerVars>>

\* The handler answers (res.json(result) or res.status(500)): the call is over.
Respond(r) ==
  /\ batch = Undefined
  /\ req[r].pc = "done"
  /\ NoneInvoking
  /\ req' = [req EXCEPT ![r] = IdleRequest]
  /\ UNCHANGED <<componentVars, models, isHealthy, tick, lastProbe, selection,
               lastHealthCheck, limiterVars, batch, timerVars>>

\* ------------------------------------------------------------- other routes
\* The rate limiter rejects the request: the middleware answers 429 and does
\* not call next().  (How the limiter decides is followed in SpecRate.)
RateLimited(r, model, type, plen) ==
  /\ req[r].pc = "idle"
  /\ NoneInvoking
  /\ req' = [req EXCEPT ![r] =
               [pc |-> IF MiddlewareStatus(FALSE) = "next" THEN "invoke" ELSE "done",
                pin |-> model, model |-> model, type |-> type, plen |-> plen,
                cur |-> 0, trace |-> <<>>, named |-> "none", result |-> "Too Many Requests"]]
  /\ UNCHANGED <<componentVars, models, isHealthy, tick, lastProbe, selection,
                 lastHealthCheck, limiterVars, batch, timerVars>>

\* POST /generate without a prompt: status 400, 'Prompt is required'.
PromptMissing(r) ==
  /\ req[r].pc = "idle"
  /\ NoneInvoking
  /\ req' = [req EXCEPT ![r].pc = "done", ![r].result = "Prompt is required"]
  /\ UNCHANGED <<componentVars, models, isHealthy, tick, lastProbe, selection,
                 lastHealthCheck, limiterVars, batch, timerVars>>

\* GET /health: answers with the isHealthy and lastHealthCheck of every model.
GetHealth ==
  /\ NoneInvoking
  /\ UNCHANGED vars

\* GET /models: answers with the capabilities and isHealthy of every model.
GetModels ==
  /\ NoneInvoking
  /\ UNCHANGED vars

\* if (prompts.length > 10): 'Maximum 10 prompts per batch'.
BatchMax == 10

\* prompts.length of the batches a caller may send (0: no array or an empty one).
BatchSizes == {0, 1, BatchMax, BatchMax + 1}

\* Mutant of BatchTooLarge: the test of the batch size is left out.
BatchTooLarge_Never(n) == FALSE

BatchTooLarge(n) == n > BatchMax

\* POST /batch/generate with n prompts: status 400 for no prompts or too many;
\* otherwise generateContent is called for every prompt (Promise.all), of
\* which calls the model follows the first.
BatchArrive(r, n, model, type, plen) ==
  /\ req[r].pc = "idle"
  /\ NoneInvoking
  /\ batch = Undefined
  /\ batch' = n
  /\ req' = [req EXCEPT ![r] =
               IF n = 0
               THEN [IdleRequest EXCEPT !.pc = "done", !.result = "Prompts array is required"]
               ELSE IF BatchTooLarge(n)
               THEN [IdleRequest EXCEPT !.pc = "done", !.result = "Maximum 10 prompts per batch"]
               ELSE [pc |-> "invoke", pin |-> model, model |-> model, type |-> type,
                     plen |-> plen, cur |-> 0, trace |-> <<>>, named |-> "none", result |-> "none"]]
  /\ UNCHANGED <<componentVars, models, isHealthy, tick, lastProbe, selection,
                 lastHealthCheck, limiterVars, timerVars>>

\* The batch handler answers: res.json({ results }), or status 400 or 500.
BatchRespond(r) ==
  /\ batch # Undefined
  /\ req[r].pc = "done"
  /\ NoneInvoking
  /\ batch' = Undefined
  /\ req' = [req EXCEPT ![r] = IdleRequest]
  /\ UNCHANGED <<componentVars, models, isHealthy, tick, lastProbe, selection,
                 lastHealthCheck, limiterVars, timerVars>>

\* ------------------------------------------------------------- RunPod proxy
\* pollForCompletion(jobId, maxAttempts = 60, interval = 2000) of RunPodProxy.
DefaultMaxAttempts == 60
MaxPolls == 4
PollArgs == 0..MaxPolls \cup {DefaultMaxAttempts}

\* response.data.status of a status request.
JobStatuses == {"COMPLETED", "FAILED", "IN_PROGRESS"}

NotPolling ==
  [pc |-> "idle", maxAttempts |-> 0, attempt |-> 0, seen |-> <<>>, outcome |-> "none"]

\* Mutant of LoopTest: the loop runs once more.
LoopTest_Inclusive(attempt, maxAttempts) == attempt <= maxAttempts

\* The test of the for loop: attempt < maxAttempts.
LoopTest(attempt, maxAttempts) == attempt < maxAttempts

\* The for loop at its test with the given attempt: the next status request
\* is issued, or the loop ends and 'Job timeout' is thrown.
AtLoopTest(p, attempt) ==
  IF LoopTest(attempt, p.maxAttempts)
  THEN [p EXCEPT !.pc = "get", !.attempt = attempt]
  ELSE [p EXCEPT !.pc = "done", !.attempt = attempt, !.outcome = "Job timeout"]

\* pollForCompletion(jobId, maxAttempts) is called: attempt = 0.
PollForCompletion(maxAttempts) ==
  /\ poll.pc = "idle"
  /\ poll' = AtLoopTest([NotPolling EXCEPT !.maxAttempts = maxAttempts], 0)
  /\ UNCHANGED <<loadBalancer, returned, models, isHealthy, tick, lastProbe, req,
                 selection, lastHealthCheck, limiterVars, batch, timerVars>>

\* The status request is answered: COMPLETED returns response.data, FAILED
\* throws 'Job failed: ...', anything else waits for `interval`.
StatusAnswers(status) ==
  /\ poll.pc = "get"
  /\ poll' = [poll EXCEPT
                !.seen = Append(@, status),
                !.pc = IF status \in {"COMPLETED", "FAILED"} THEN "done" ELSE "wait",
                !.outcome = IF status = "COMPLETED" THEN "data"
                            ELSE IF status = "FAILED" THEN "Job failed" ELSE @]
  /\ UNCHANGED <<loadBalancer, returned, models, isHealthy, tick, lastProbe, req,
                 selection, lastHealthCheck, limiterVars, batch, timerVars>>

\* The status request fails (network error, non-2xx status): axios.get
\* rejects and the error leaves pollForCompletion.
StatusRejects ==
  /\ poll.pc = "get"
  /\ poll' = [poll EXCEPT !.pc = "done", !.outcome = "error"]
  /\ UNCHANGED <<loadBalancer, returned, models, isHealthy, tick, lastProbe, req,
                 selection, lastHealthCheck, limiterVars, batch, timerVars>>

\* setTimeout(resolve, interval) fires: attempt++ and the loop test.
TimerFires ==
  /\ poll.pc = "wait"
  /\ poll' = AtLoopTest(poll, poll.attempt + 1)
  /\ UNCHANGED <<loadBalancer, returned, models, isHealthy, tick, lastProbe, req,
                 selection, lastHealthCheck, limiterVars, batch, timerVars>>

\* ------------------------------------------------------------- health checks
\* What a probe can answer: status 200, another 2xx status (axios resolves),
\* or an error (non-2xx status, network error, 5 s timeout: axios rejects).
ProbeStatuses == {"200", "2xx", "error"}

\* Mutant of ProbeHealthy: no answer of the health endpoint counts as healthy.
ProbeHealthy_Never(status) == FALSE

\* Mutant of ProbeHealthy: the catch block leaves the provider healthy.
ProbeHealthy_Always(status) == TRUE

\* model.isHealthy after a probe: healthResponse.status === 200, false in catch.
ProbeHealthy(status) == status = "200"

\* setInterval fires (or the initial check): checkModelHealth() starts and
\* issues the probe of the first provider.
TickStart ==
  /\ interval
  /\ tick = 0
  /\ NoneInvoking
  /\ tick' = 1
  /\ lastHealthCheck' = [p \in Providers(models) |-> "before"]
  /\ UNCHANGED <<componentVars, models, isHealthy, lastProbe, req, selection, limiterVars, batch, timerVars>>

\* Mutant of NextProbe: a probe that throws ends the run of checkModelHealth.
NextProbe_EndsOnError(i, status, n) ==
  IF status = "error" THEN 0 ELSE IF i < n THEN i + 1 ELSE 0

\* The for loop of checkModelHealth after the probe of provider i of n: the
\* try/catch is inside the loop, so the next provider follows whatever the
\* probe answered; 0 after the last one.
NextProbe(i, status, n) == IF i < n THEN i + 1 ELSE 0

\* The probe of provider `tick` answers; the loop goes on to the next provider.
ProbeReturn(status) ==
  /\ tick # 0
  /\ NoneInvoking
  /\ isHealthy' = [isHealthy EXCEPT ![tick] = ProbeHealthy(status)]
  /\ lastHealthCheck' = [lastHealthCheck EXCEPT ![tick] = "during"]
  /\ lastProbe' = [model |-> tick, status |-> status]
  /\ tick' = NextProbe(tick, status, Len(models))
  /\ UNCHANGED <<componentVars, models, req, selection, limiterVars, batch, timerVars>>

\* startHealthChecks(): setInterval(checkModelHealth, 30000), whose handle is
\* not kept, and the initial run of checkModelHealth.
StartHealthChecks ==
  /\ ~interval
  /\ tick = 0
  /\ NoneInvoking
  /\ interval' = TRUE
  /\ stopCalled' = FALSE
  /\ tick' = 1
  /\ lastHealthCheck' = [p \in Providers(models) |-> "before"]
  /\ UNCHANGED <<componentVars, models, isHealthy, lastProbe, req, selection, limiterVars, batch,
                 healthCheckInterval>>

\* stopHealthChecks() of services/model-router.js: if this.healthCheckInterval
\* holds a handle, clearInterval(handle) and the field is set to null.
StopHealthChecks ==
  /\ NoneInvoking
  /\ interval' = IF healthCheckInterval # "null" THEN FALSE ELSE interval
  /\ healthCheckInterval' = "null"
  /\ stopCalled' = TRUE
  /\ UNCHANGED <<componentVars, models, isHealthy, tick, lastProbe, req, selection,
                 lastHealthCheck, limiterVars, batch>>

\* ------------------------------------------------------------- specification
NoSelection == [type |-> "general", plen |-> 0, health |-> <<>>, result |-> 0]

\* new ModelRouter(): the registry is filled, nothing has run yet.
Constructed ==
  /\ models = InitializeModels
  /\ isHealthy = [i \in Providers(InitializeModels) |-> TRUE]
  /\ lastHealthCheck = [i \in Providers(InitializeModels) |-> "before"]
  /\ tick = 0
  /\ lastProbe = [model |-> 0, status |-> "none"]
  /\ req = [r \in {1} |-> IdleRequest]
  /\ selection = NoSelection
  /\ windows = [ip \in Callers |-> NoWindow]
  /\ admission = NoAdmission
  /\ recent = [ip \in Callers |-> {}]
  /\ batch = Undefined
  /\ healthCheckInterval = "null"
  /\ stopCalled = FALSE
  /\ loadBalancer = Balancers(models)
  /\ returned = <<>>
  /\ poll = NotPolling

\* The router serves: start(port) has registered the health-check timer.
Init == Constructed /\ interval = TRUE

ModelArgs == {"auto", UnknownModel} \cup {InitializeModels[i].key : i \in Providers(InitializeModels)}

Next ==
  \/ \E r \in Requests, model \in ModelArgs, type \in RequestTypes, plen \in PromptLengths :
       Arrive(r, model, type, plen)
  \/ \E r \in Requests : ModelNotFound(r)
  \/ \E r \in Requests : SelectedUnhealthy(r)
  \/ \E r \in Requests : IssueCall(r)
  \/ \E r \in Requests : CallSucceeds(r)
  \/ \E r \in Requests : CallFails(r)
  \/ \E r \in Requests : Respond(r)
  \/ TickStart
  \/ \E status \in ProbeStatuses : ProbeReturn(status)
  \/ \E r \in Requests, model \in ModelArgs, type \in RequestTypes, plen \in PromptLengths :
       RateLimited(r, model, type, plen)
  \/ \E r \in Requests : PromptMissing(r)
  \/ GetHealth
  \/ GetModels

Spec == Init /\ [][Next]_vars

\* ------------------------------------------------------------- unregistered names
\* The router under requests whose `model` option is no registered key.
UnregisteredArgs == {UnknownModel, InheritedKey}

NextUnregistered ==
  \/ \E r \in Requests, model \in UnregisteredArgs, type \in RequestTypes,
        plen \in PromptLengths : Arrive(r, model, type, plen)
  \/ \E r \in Requests : ModelNotFound(r)
  \/ \E r \in Requests : SelectedUnhealthy(r)
  \/ \E r \in Requests : IssueCall(r)
  \/ \E r \in Requests : CallSucceeds(r)
  \/ \E r \in Requests : CallFails(r)
  \/ \E r \in Requests : Respond(r)
  \/ TickStart
  \/ \E status \in ProbeStatuses : ProbeReturn(status)

SpecUnregistered == Init /\ [][NextUnregistered]_vars

\* ------------------------------------------------------------- batches
\* The router under POST /batch/generate requests, which leave the provider
\* to automatic selection or name an unknown one.
BatchModelArgs == {"auto", UnknownModel}

NextBatch ==
  \/ \E r \in Requests, n \in BatchSizes, model \in BatchModelArgs, type \in RequestTypes,
        plen \in PromptLengths : BatchArrive(r, n, model, type, plen)
  \/ \E r \in Requests : ModelNotFound(r)
  \/ \E r \in Requests : SelectedUnhealthy(r)
  \/ \E r \in Requests : IssueCall(r)
  \/ \E r \in Requests : CallSucceeds(r)
  \/ \E r \in Requests : CallFails(r)
  \/ \E r \in Requests : BatchRespond(r)
  \/ TickStart
  \/ \E status \in ProbeStatuses : ProbeReturn(status)

SpecBatch == Init /\ [][NextBatch]_vars

\* ------------------------------------------------------------- selection alone
\* selectOptimalModel as a function of the registry it reads, the health
\* flags, the task type and the prompt length.  Besides the registry of
\* initializeModels the inputs hold the three-provider registry of the
\* specification's selection scenario: A (conversation, priority 2), then
\* B (conversation and analysis, priority 1), then C.
ScenarioModels ==
  << [key |-> "A", name |-> "A", capabilities |-> {"conversation"},
      max_tokens |-> 2048, priority |-> 2],
     [key |-> "B", name |-> "B", capabilities |-> {"conversation", "analysis"},
      max_tokens |-> 2048, priority |-> 1],
     [key |-> "C", name |-> "C", capabilities |-> {"text-generation"},
      max_tokens |-> 2048, priority |-> 3] >>

Registries == {InitializeModels, ScenarioModels}

\* A direct call selectOptimalModel(type, prompt).
Select(type, plen) ==
  /\ selection' = [type |-> type, plen |-> plen, health |-> isHealthy,
                   result |-> SelectOptimalModel(models, isHealthy, type, plen)]
  /\ UNCHANGED <<componentVars, models, isHealthy, tick, lastProbe, req,
               lastHealthCheck, limiterVars, batch, timerVars>>

InitSelect ==
  /\ models \in Registries
  /\ isHealthy \in [Providers(models) -> BOOLEAN]
  /\ tick = 0
  /\ lastProbe = [model |-> 0, status |-> "none"]
  /\ req = <<>>
  /\ selection = NoSelection
  /\ lastHealthCheck = [i \in Providers(models) |-> "before"]
  /\ windows = [ip \in Callers |-> NoWindow]
  /\ admission = NoAdmission
  /\ recent = [ip \in Callers |-> {}]
  /\ batch = Undefined
  /\ interval = FALSE
  /\ healthCheckInterval = "null"
  /\ stopCalled = FALSE
  /\ loadBalancer = Balancers(models)
  /\ returned = <<>>
  /\ poll = NotPolling

NextSelect == \E type \in RequestTypes, plen \in PromptLengths : Select(type, plen)

SpecSelect == InitSelect /\ [][NextSelect]_vars

\* ------------------------------------------------------------- selection again
\* selectOptimalModel called again and again for one task type and prompt
\* while automatically selected requests and the health checks run.
ReselectTypes == {"text-generation"}
ReselectLengths == {100}

NextReselect ==
  \/ \E type \in ReselectTypes, plen \in ReselectLengths : NoneInvoking /\ Select(type, plen)
  \/ \E r \in Requests, type \in ReselectTypes, plen \in ReselectLengths :
       Arrive(r, "auto", type, plen)
  \/ \E r \in Requests : SelectedUnhealthy(r)
  \/ \E r \in Requests : IssueCall(r)
  \/ \E r \in Requests : CallSucceeds(r)
  \/ \E r \in Requests : CallFails(r)
  \/ \E r \in Requests : Respond(r)
  \/ TickStart
  \/ \E status \in ProbeStatuses : ProbeReturn(status)

SpecReselect == Init /\ [][NextReselect]_vars

\* ------------------------------------------------------------- recovery
\* The router under automatic requests and health checks, with the scheduling
\* of Node's event loop: a due timer callback (the setInterval of
\* startHealthChecks fires every 30 s) runs once the synchronous code before
\* it has returned, a probe is answered or cut off by its 5 s timeout, and
\* the synchronous part of generateContent runs to its end.
LiveTypes == {"text-generation"}
LiveLengths == {100}

Synchronous ==
  \E r \in Requests : ModelNotFound(r) \/ SelectedUnhealthy(r) \/ IssueCall(r)

NextLive ==
  \/ \E r \in Requests, type \in LiveTypes, plen \in LiveLengths :
       Arrive(r, "auto", type, plen)
  \/ Synchronous
  \/ \E r \in Requests : CallSucceeds(r)
  \/ \E r \in Requests : CallFails(r)
  \/ \E r \in Requests : Respond(r)
  \/ TickStart
  \/ \E status \in ProbeStatuses : ProbeReturn(status)

SpecLive ==
  /\ Init
  /\ [][NextLive]_vars
  /\ WF_vars(Synchronous)
  /\ SF_vars(TickStart)
  /\ SF_vars(\E status \in ProbeStatuses : ProbeReturn(status))

\* ------------------------------------------------------------- two requests
\* Two requests at a time, automatically selected or pinned to a registered
\* provider, and health checks whose probes fail (the answers that take a
\* flag down while a request is under way).
PairModelArgs == {"auto", "gemma3", "chatterbox", "hfHub"}
PairTypes == {"conversation", "text-generation"}
PairLengths == {100}
PairStatuses == {"error"}

InitPair ==
  /\ models = InitializeModels
  /\ isHealthy = [i \in Providers(InitializeModels) |-> TRUE]
  /\ lastHealthCheck = [i \in Providers(InitializeModels) |-> "before"]
  /\ tick = 0
  /\ lastProbe = [model |-> 0, status |-> "none"]
  /\ req = [r \in {1, 2} |-> IdleRequest]
  /\ selection = NoSelection
  /\ windows = [ip \in Callers |-> NoWindow]
  /\ admission = NoAdmission
  /\ recent = [ip \in Callers |-> {}]
  /\ batch = Undefined
  /\ healthCheckInterval = "null"
  /\ stopCalled = FALSE
  /\ loadBalancer = Balancers(models)
  /\ returned = <<>>
  /\ poll = NotPolling
  /\ interval = TRUE

NextPair ==
  \/ \E r \in Requests, model \in PairModelArgs, type \in PairTypes, plen \in PairLengths :
       Arrive(r, model, type, plen)
  \/ \E r \in Requests : SelectedUnhealthy(r)
  \/ \E r \in Requests : IssueCall(r)
  \/ \E r \in Requests : CallSucceeds(r)
  \/ \E r \in Requests : CallFails(r)
  \/ \E r \in Requests : Respond(r)
  \/ TickStart
  \/ \E status \in PairStatuses : ProbeReturn(status)

SpecPair == InitPair /\ [][NextPair]_vars

\* ------------------------------------------------------------- limiter alone
\* The rate-limiting middleware under requests of the callers and the passing
\* of time; what follows next() is left to Spec.
NextRate ==
  \/ \E ip \in Callers : Enter(ip) /\ UNCHANGED recent
  \/ RateLimit /\ UNCHANGED recent
  \/ \E d \in ElapseSteps : Elapse(d) /\ UNCHANGED recent

SpecRate == Init /\ [][NextRate]_vars

\* ------------------------------------------------------------- start and stop
\* The health checks from the construction of the router on, under
\* startHealthChecks, stopHealthChecks and the timer.
InitStop == Constructed /\ interval = FALSE

NextStop ==
  \/ StartHealthChecks
  \/ StopHealthChecks
  \/ TickStart
  \/ \E status \in ProbeStatuses : ProbeReturn(status)

SpecStop == InitStop /\ [][NextStop]_vars

\* ------------------------------------------------------------- load balancer
\* One RoundRobinLoadBalancer over a non-empty list of endpoints, under
\* calls of getNextEndpoint.
MaxEndpoints == 3
MaxCalls == 7
EndpointNames == {"a", "b", "c"}

EndpointLists ==
  {eps \in UNION {[1..n -> EndpointNames] : n \in 1..MaxEndpoints} :
     \A i, j \in DOMAIN eps : eps[i] = eps[j] => i = j}

TheBalancer == 1

InitBalancer ==
  /\ models = InitializeModels
  /\ isHealthy = [i \in Providers(InitializeModels) |-> TRUE]
  /\ lastHealthCheck = [i \in Providers(InitializeModels) |-> "before"]
  /\ tick = 0
  /\ lastProbe = [model |-> 0, status |-> "none"]
  /\ req = [r \in {1} |-> IdleRequest]
  /\ selection = NoSelection
  /\ windows = [ip \in Callers |-> NoWindow]
  /\ admission = NoAdmission
  /\ recent = [ip \in Callers |-> {}]
  /\ batch = Undefined
  /\ healthCheckInterval = "null"
  /\ stopCalled = FALSE
  /\ interval = FALSE
  /\ loadBalancer \in {[b \in {TheBalancer} |-> NewBalancer(eps)] : eps \in EndpointLists}
  /\ returned = <<>>
  /\ poll = NotPolling

\* A call of getNextEndpoint() on the balancer.
NextEndpoint ==
  LET next == GetNextEndpoint(loadBalancer[TheBalancer]) IN
  /\ Len(returned) < MaxCalls
  /\ returned' = Append(returned, next.endpoint)
  /\ loadBalancer' = [loadBalancer EXCEPT ![TheBalancer] = next.balancer]
  /\ UNCHANGED <<models, isHealthy, tick, lastProbe, req, selection,
                 lastHealthCheck, limiterVars, batch, timerVars, poll>>

SpecBalancer == InitBalancer /\ [][NextEndpoint]_vars

\* ------------------------------------------------------------- polling
\* One call of pollForCompletion.  The timer of the wait fires after
\* `interval`; the status request is issued without a timeout, so nothing in
\* the code makes it end.
InitPoll == Constructed /\ interval = FALSE

NextPoll ==
  \/ \E maxAttempts \in PollArgs : PollForCompletion(maxAttempts)
  \/ \E status \in JobStatuses : StatusAnswers(status)
  \/ StatusRejects
  \/ TimerFires

SpecPoll == InitPoll /\ [][NextPoll]_vars /\ WF_vars(TimerFires)

\* ------------------------------------------------------------- bursts
\* The limiter under the requests of one caller, with a record of the calls
\* it admitted less than 60 seconds ago: n calls `ago` seconds ago.
BurstCallers == {"ip1"}

\* The record after one more call was admitted now.
AdmittedNow(log) ==
  IF \E e \in log : e.ago = 0
  THEN {IF e.ago = 0 THEN [e EXCEPT !.n = @ + 1] ELSE e : e \in log}
  ELSE log \cup {[ago |-> 0, n |-> 1]}

\* The record d seconds later.
Later(log, d) ==
  {[ago |-> e.ago + d, n |-> e.n] : e \in {x \in log : x.ago + d < 60}}

NextBurst ==
  \/ \E ip \in BurstCallers : Enter(ip) /\ UNCHANGED recent
  \/ /\ RateLimit
     /\ recent' = IF admission'.status = "next"
                   THEN [recent EXCEPT ![admission.ip] = AdmittedNow(@)]
                   ELSE recent
  \/ \E d \in ElapseSteps :
       Elapse(d) /\ recent' = [ip \in Callers |-> Later(recent[ip], d)]

SpecBurst == Init /\ [][NextBurst]_vars

\* ------------------------------------------------------------- claims
\* The first selection a request with model 'auto' records is the return
\* value of selectOptimalModel, and `called` tells whether it was healthy.
HealthyProviders == {p \in Providers(models) : isHealthy[p]}

\* C1: for a request with no pin, selectOptimalModel never returns a provider
\* whose isHealthy flag is false, in any reachable health state.
C1_AutoSelectionReturnsHealthy ==
  \A r \in Requests :
    (req[r].pin = "auto" /\ req[r].trace # <<>>) => req[r].trace[1].called

\* C2: within one generateContent call, the selection that follows a failed
\* attempt on provider P does not choose P.
C2_FailedProviderNotSelectedNext ==
  \A r \in Requests :
    LET t == req[r].trace IN
    /\ \A i \in 1..(Len(t) - 1) : t[i].called => t[i + 1].model # t[i].model
    /\ (req[r].pc = "invoke" /\ t # <<>> /\ t[Len(t)].called)
         => SelectedModel(r) # t[Len(t)].model

\* C2 witness: an attempt failed and the call has made its next selection.
C2_Witness ==
  \E r \in Requests :
    /\ Len(req[r].trace) >= 2
    /\ req[r].trace[1].called
    /\ req[r].pc = "calling"

\* C3: a request that arrives when every provider is unhealthy has its
\* selection fail (no provider returned), its dispatch fail with the
\* exhaustion error, and issues no outbound call.
C3_AllUnhealthyFailsExhausted ==
  [][\A r \in Requests :
       ( /\ req[r].pc = "invoke"
         /\ req[r].trace = <<>>
         /\ req[r].model # UnknownModel
         /\ HealthyProviders = {}
         /\ req'[r] # req[r] )
       => ( /\ req'[r].pc = "done"
            /\ req'[r].result = "All models unavailable"
            /\ req'[r].trace = <<>> )]_vars

\* C4: one generateContent call makes no more provider attempts than there
\* are registered providers, also when health checks run between attempts.
C4_AttemptsBoundedByProviders ==
  \A r \in Requests : Len(Attempts(req[r].trace)) <= Len(models)

\* C5: within one generateContent call no provider is attempted twice.
C5_NoProviderAttemptedTwice ==
  \A r \in Requests :
    LET a == Attempts(req[r].trace) IN
    \A i, j \in 1..Len(a) : i # j => a[i] # a[j]

\* A step in which the probe of provider p answers.
ProbeAnswers(p) == tick = p /\ tick' # tick

\* C6: a probe of P that fails (non-success status, error, timeout) leaves
\* P.isHealthy false at once, and P.isHealthy turns from false to true only
\* in a step in which a probe of P answers with success.
C6_ProbeFailureUnhealthyUntilProbeSuccess ==
  [][\A p \in Providers(models) :
       /\ (ProbeAnswers(p) /\ lastProbe'.status = "error") => ~isHealthy'[p]
       /\ (~isHealthy[p] /\ isHealthy'[p])
            => (ProbeAnswers(p) /\ lastProbe' = [model |-> p, status |-> "200"])]_vars

\* C6 witness: the last probe failed and its provider is unhealthy.
C6_Witness ==
  /\ lastProbe.status = "error"
  /\ ~isHealthy[lastProbe.model]

\* A step in which the outbound call of request r fails.
AttemptFails(r) ==
  /\ req[r].pc = "calling"
  /\ req'[r].pc # "calling"
  /\ req'[r].result # "ok"

\* C7: a failed attempt on P leaves P.isHealthy false in the same step; no
\* step of a request turns a flag true, only the answer of a probe does.
C7_FailedAttemptUnhealthyAtOnce ==
  [][/\ \A r \in Requests : AttemptFails(r) => ~isHealthy'[req[r].cur]
     /\ \A p \in Providers(models) :
          (~isHealthy[p] /\ isHealthy'[p]) => (req' = req /\ ProbeAnswers(p))]_vars

\* C7 witness: the attempt on the current provider has just failed, the
\* provider is unhealthy and the call goes on to its fallback.
C7_Witness ==
  \E r \in Requests :
    /\ req[r].pc = "invoke"
    /\ req[r].cur # 0
    /\ ~isHealthy[req[r].cur]

\* C8: a request that pins a registered provider P, healthy when the request
\* is handled, makes its first attempt on P, whatever the scores.
C8_HealthyPinIsFirstAttempt ==
  [][\A r \in Requests :
       LET p == Lookup(models, req[r].pin) IN
       ( /\ req[r].pc = "invoke"
         /\ req[r].trace = <<>>
         /\ req[r].pin # "auto"
         /\ p # 0
         /\ isHealthy[p]
         /\ req'[r] # req[r] )
       => ( /\ req'[r].pc = "calling"
            /\ req'[r].cur = p
            /\ Attempts(req'[r].trace) = <<p>> )]_vars

\* C8 witness: a conversation request pinned to hfHub is being served by
\* hfHub while chatterbox, the best score for conversation, is healthy.
C8_Witness ==
  \E r \in Requests :
    /\ req[r].pin = "hfHub"
    /\ req[r].type = "conversation"
    /\ req[r].pc = "calling"
    /\ Attempts(req[r].trace) = <<Lookup(models, "hfHub")>>
    /\ isHealthy[Lookup(models, "chatterbox")]
    /\ SelectOptimalModel(models, isHealthy, req[r].type, req[r].plen)
         = Lookup(models, "chatterbox")

TopScorers ==
  {i \in HealthyProviders :
     \A j \in HealthyProviders :
       Score(models[j], selection.type, selection.plen)
         <= Score(models[i], selection.type, selection.plen)}

PreferredOnTie ==
  CHOOSE i \in TopScorers :
    \A j \in TopScorers :
      \/ models[i].priority < models[j].priority
      \/ (models[i].priority = models[j].priority /\ i <= j)

C11_SelectedScoreIsMaximal ==
  (selection.plen # 0 /\ HealthyProviders # {}) =>
    /\ selection.result \in HealthyProviders
    /\ \A j \in HealthyProviders :
         Score(models[j], selection.type, selection.plen)
           <= Score(models[selection.result], selection.type, selection.plen)

\* A selection among healthy providers of different scores that returned a
\* provider registered after a lower-scoring healthy one.
C11_Witness ==
  /\ selection.plen # 0
  /\ selection.result \in HealthyProviders
  /\ \E j \in HealthyProviders :
       /\ j < selection.result
       /\ Score(models[j], selection.type, selection.plen)
            < Score(models[selection.result], selection.type, selection.plen)
  /\ \E j \in HealthyProviders :
       /\ j > selection.result
       /\ Score(models[j], selection.type, selection.plen)
            < Score(models[selection.result], selection.type, selection.plen)

\* The step in which consume answers the request waiting in the middleware.
LimiterAnswers == admission.status = "pending" /\ admission'.status # "pending"

\* C12: with the ceiling of 100 calls per window of 60 seconds, a caller's
\* first call opens a window of count 1; every later call that finds the
\* window live and below the ceiling is admitted and raises the count by one;
\* a call that finds the live window at the ceiling (the 101st) is rejected
\* and leaves the count as it was; so no window ever counts more than 100
\* admitted calls, and the windows of other callers are not touched.
C12_AtMostCeilingPerWindow ==
  [][LimiterAnswers =>
      LET ip == admission.ip
          w == windows[ip]
          live == w # NoWindow /\ w.age <= 60 IN
      /\ w = NoWindow =>
           (admission'.status = "next" /\ windows'[ip] = [age |-> 0, count |-> 1])
      /\ (live /\ w.count < 100) =>
           (admission'.status = "next" /\ windows'[ip] = [w EXCEPT !.count = @ + 1])
      /\ (live /\ w.count >= 100) =>
           (admission'.status = "429" /\ windows'[ip] = w)
      /\ windows'[ip].count <= 100
      /\ \A other \in Callers \ {ip} : windows'[other] = windows[other]]_vars

\* The 101st call of a caller within its window has been rejected, while the
\* other caller is part-way through a window of its own.
C12_Witness ==
  /\ admission.status = "429"
  /\ admission.found.count = 100
  /\ admission.found.age <= 60
  /\ windows[admission.ip] = admission.found
  /\ \E other \in Callers \ {admission.ip} :
       windows[other].count \in 1..99 /\ windows[other].age <= 60

\* C13: a call that finds its caller's stored window started more than 60
\* seconds ago is admitted, whatever the count of that window, and leaves a
\* new window of count 1 stored.
C13_CallAfterWindowStartsNewWindow ==
  [][LimiterAnswers =>
      LET ip == admission.ip
          w == windows[ip] IN
      (w # NoWindow /\ w.age > 60) =>
        (admission'.status = "next" /\ windows'[ip] = [age |-> 0, count |-> 1])]_vars

\* A call has been admitted that found a window at the ceiling and over.
C13_Witness ==
  /\ admission.status = "next"
  /\ admission.found.count = 100
  /\ admission.found.age > 60
  /\ windows[admission.ip] = [age |-> 0, count |-> 1]

\* C14: a batch of more than 10 prompts is answered with status 400 in the
\* step in which it arrives: no provider is selected or called for it, then
\* or later, and its arrival leaves every health flag and the health checks
\* as they were.
C14_OversizedBatchRejectedFirst ==
  [][\A r \in Requests :
       /\ (batch = Undefined /\ batch' > 10 /\ req'[r] # req[r]) =>
            /\ req'[r] = [IdleRequest EXCEPT !.pc = "done",
                                             !.result = "Maximum 10 prompts per batch"]
            /\ isHealthy' = isHealthy
            /\ <<tick, lastProbe, lastHealthCheck>>' = <<tick, lastProbe, lastHealthCheck>>
       /\ (batch > 10 /\ batch' = batch) => req'[r] = req[r]]_vars

\* A batch of 11 prompts has been answered 400 while a provider is unhealthy.
C14_Witness ==
  /\ batch = 11
  /\ \E r \in Requests :
       req[r].pc = "done" /\ req[r].result = "Maximum 10 prompts per batch"
  /\ HealthyProviders # Providers(models)

\* C15: when a provider's call fails while another provider is healthy, the
\* request goes on to a healthy provider other than the failed one and no
\* error is returned; generateContent ends in a dispatch error ('All models
\* unavailable' after a failed call, 'No healthy models available' before a
\* call) only in a step after which no provider is healthy.
C15_ErrorOnlyWhenNoneHealthy ==
  [][\A r \in Requests :
       /\ (AttemptFails(r) /\ \E p \in HealthyProviders : p # req[r].cur) =>
            /\ req'[r].pc = "invoke"
            /\ req'[r].result = "none"
            /\ isHealthy'[Lookup(models, req'[r].model)]
            /\ Lookup(models, req'[r].model) # req[r].cur
       /\ (req[r].pc # "done" /\ req'[r].pc = "done"
             /\ req'[r].result \in {"All models unavailable", "No healthy models available"}) =>
            \A p \in Providers(models) : ~isHealthy'[p]]_vars

\* A request has been answered by its third provider after two failed calls.
C15_Witness ==
  \E r \in Requests :
    /\ req[r].pc = "done"
    /\ req[r].result = "ok"
    /\ Len(Attempts(req[r].trace)) = 3

\* C16: the healthy flag of a provider changes only in the step in which a
\* health-check probe of that provider answers, or in the step in which a
\* call issued to that provider fails (and then it becomes false).  Every
\* other step of a request -- arrival past or rejection by the rate limiter,
\* selection and scoring, the issue of a call, a call that succeeds, the
\* response -- and GET /health and GET /models leave every flag as it was.
C16_HealthWrittenOnlyByProbeOrFailure ==
  [][/\ \A p \in Providers(models) :
          isHealthy'[p] # isHealthy[p] =>
            \/ ProbeAnswers(p)
            \/ \E r \in Requests : AttemptFails(r) /\ req[r].cur = p /\ ~isHealthy'[p]
     /\ (req' # req /\ ~\E r \in Requests : AttemptFails(r)) => isHealthy' = isHealthy]_vars

\* A request has been answered by its second provider before any probe
\* answered: the provider whose call failed is the only unhealthy one.
C16_Witness ==
  \E r \in Requests :
    /\ req[r].pc = "done"
    /\ req[r].result = "ok"
    /\ Len(Attempts(req[r].trace)) = 2
    /\ lastProbe.status = "none"
    /\ HealthyProviders = Providers(models) \ {Attempts(req[r].trace)[1]}

\* C17: a request the rate limiter rejects is answered 429 'Too Many
\* Requests' in the step of its rejection and goes no further: no provider
\* is selected or called for it, and the rejection changes no health flag.
C17_RejectedRequestGoesNoFurther ==
  [][\A r \in Requests :
       /\ req'[r].result = "Too Many Requests" =>
            (req'[r].pc = "done" /\ req'[r].trace = <<>> /\ req'[r].cur = 0)
       /\ (req[r].pc = "idle" /\ req'[r].result = "Too Many Requests") =>
            (isHealthy' = isHealthy /\ selection' = selection)
       /\ (req[r].result = "Too Many Requests" /\ req'[r] # req[r]) =>
            req'[r] = IdleRequest]_vars

\* A request that named a healthy provider has been answered 429.
C17_Witness ==
  \E r \in Requests :
    /\ req[r].result = "Too Many Requests"
    /\ req[r].pc = "done"
    /\ Lookup(models, req[r].pin) \in HealthyProviders

\* C18: a run of checkModelHealth starts with the first registered provider;
\* whatever a probe answers (200, another status, an error or a timeout), its
\* provider's healthy flag and last-check time are set and the probe of the
\* next registered provider follows; the run ends only after the last
\* provider, when the last-check time of every provider lies within the run.
C18_TickProbesEveryProvider ==
  [][/\ (tick = 0 /\ tick' # 0) => tick' = 1
     /\ \A p \in Providers(models) :
          ProbeAnswers(p) =>
            /\ isHealthy'[p] = (lastProbe'.status = "200")
            /\ lastHealthCheck'[p] = "during"
            /\ tick' = IF p < Len(models) THEN p + 1 ELSE 0
     /\ (tick # 0 /\ tick' = 0) =>
          \A p \in Providers(models) : lastHealthCheck'[p] = "during"]_vars

\* A run has ended with every provider checked although its first two probes
\* failed.
C18_Witness ==
  /\ tick = 0
  /\ \A p \in Providers(models) : lastHealthCheck[p] = "during"
  /\ lastProbe = [model |-> Len(models), status |-> "200"]
  /\ HealthyProviders = {Len(models)}
  /\ \A r \in Requests : req[r] = IdleRequest

\* What a request and the health checks can do in the current state.
CanArrive(r) == ENABLED Arrive(r, "auto", "general", 100)
CanDispatch(r) == ENABLED (ModelNotFound(r) \/ SelectedUnhealthy(r) \/ IssueCall(r))
CanAnswer(r) == ENABLED CallSucceeds(r) /\ ENABLED CallFails(r)
CanProbe == IF tick = 0 THEN ENABLED TickStart ELSE ENABLED ProbeReturn("200")

\* C19: the health checks and the requests do not wait for each other.  While
\* a run of checkModelHealth is between two probes a request can arrive, and
\* its selection and dispatch go ahead; they read the health flags as they
\* are at that moment.  While a call to a provider is in flight (and can
\* still fail over) the call can be answered, a run of checkModelHealth can
\* start, and the probe of a run under way can answer.
C19_ProbingAndRequestsDoNotBlock ==
  /\ [](\A r \in Requests :
          /\ (req[r].pc = "idle" /\ tick # 0) => CanArrive(r)
          /\ (req[r].pc = "invoke" /\ tick # 0) => CanDispatch(r)
          /\ (req[r].pc = "calling" /\ Len(Attempts(req[r].trace)) < MaxAttempts) =>
               (CanAnswer(r) /\ CanProbe))
  /\ [][\A r \in Requests :
          (req[r].pc = "invoke" /\ req'[r].pc = "calling") =>
            /\ isHealthy[req'[r].cur]
            /\ req[r].model = "auto" =>
                 req'[r].cur = SelectOptimalModel(models, isHealthy, req[r].type, req[r].plen)]_vars

\* The probe of gemma3 failed while the first call of a request, issued to
\* gemma3 when it was healthy, is still in flight; the run goes on.
C19_Witness ==
  /\ tick = 2
  /\ lastProbe = [model |-> 1, status |-> "error"]
  /\ ~isHealthy[1]
  /\ \E r \in Requests :
       /\ req[r].pc = "calling"
       /\ req[r].trace = <<[model |-> 1, called |-> TRUE]>>

C21_UnregisteredPinNotFound ==
  [][\A r \in Requests :
       LET registered == {models[i].key : i \in Providers(models)} IN
       /\ (req[r].pc = "invoke" /\ req[r].trace = <<>>
             /\ req[r].pin \notin registered \cup {"auto"} /\ req'[r] # req[r]) =>
            /\ req'[r] = [req[r] EXCEPT !.pc = "done", !.result = "not found"]
            /\ isHealthy' = isHealthy
       /\ req'[r].pin \notin registered \cup {"auto"} =>
            Attempts(req'[r].trace) = <<>>]_vars

\* C22: in every reachable state the registry is the one initializeModels
\* built: the same providers in the same order, each with the key,
\* capabilities, generation parameters and priority it was registered with.
C22_RegistryNeverChanges ==
  /\ models = InitializeModels
  /\ DOMAIN isHealthy = Providers(InitializeModels)

\* The registry is unchanged after a request ran out of providers and a
\* health check answered.
C22_Witness ==
  /\ models = InitializeModels
  /\ lastProbe.status # "none"
  /\ \E r \in Requests :
       req[r].result = "All models unavailable" /\ Len(Attempts(req[r].trace)) >= 2

C24_DefaultOnlyWhenNoneHealthy ==
  selection.plen # 0 =>
    IF HealthyProviders # {}
    THEN selection.result \in HealthyProviders
    ELSE selection.result = Lookup(models, "gemma3")

\* A healthy provider that has nothing but the base score has been selected
\* while the default provider is unhealthy.
C24_Witness ==
  /\ selection.plen # 0
  /\ selection.result \in HealthyProviders
  /\ Score(models[selection.result], selection.type, selection.plen) = 5
  /\ Lookup(models, "gemma3") \in Providers(models) \ HealthyProviders

\* C25: in the step that issues a call to provider P, P's healthy flag is
\* true; and while a request is between its selection and the issue of its
\* call, no probe starts or answers, no flag changes and no other request
\* takes a step.
C25_HealthyWhenCallIssued ==
  [][\A r \in Requests :
       /\ (req[r].pc # "calling" /\ req'[r].pc = "calling") =>
            (isHealthy[req'[r].cur] /\ isHealthy'[req'[r].cur])
       /\ req[r].pc = "invoke" =>
            /\ isHealthy' = isHealthy
            /\ tick' = tick
            /\ \A q \in Requests \ {r} : req'[q] = req[q]]_vars

\* During a run of the health checks two requests of the same task type have
\* calls in flight to different providers.
C25_Witness ==
  /\ tick # 0
  /\ \A r \in Requests : req[r].pc = "calling"
  /\ \E r, q \in Requests : req[r].cur # req[q].cur

RECURSIVE Total(_)
Total(log) ==
  IF log = {} THEN 0
  ELSE LET e == CHOOSE x \in log : TRUE IN e.n + Total(log \ {e})

\* The calls of caller ip admitted within the last span shorter than 60 s.
Burst(ip) == Total(recent[ip])

C27_ResultNamesAnsweringProvider ==
  \A r \in Requests :
    LET called == Attempts(req[r].trace) IN
    /\ req[r].result = "ok" =>
         /\ called # <<>>
         /\ req[r].named = models[called[Len(called)]].name
    /\ req[r].result # "ok" => req[r].named = "none"

\* A request pinned to one provider was answered by another one after a
\* failed call and names the one that answered.
C27_Witness ==
  \E r \in Requests :
    LET called == Attempts(req[r].trace) IN
    /\ req[r].result = "ok"
    /\ Len(called) >= 2
    /\ req[r].pin = models[called[1]].key
    /\ req[r].named # models[called[1]].name
    /\ req[r].named = models[called[Len(called)]].name

\* A probe of provider p answers with something else than status 200.
ProbeFailsOn(p) ==
  tick = p /\ tick' # tick /\ lastProbe'.status # "200"

\* A call issued to provider p fails.
DispatchFailsOn(p) ==
  \E r \in Requests :
    /\ req[r].pc = "calling" /\ req[r].cur = p
    /\ req'[r].pc # "calling" /\ req'[r].result # "ok"

\* C28: recovery is live: with the health checks running, if from some point
\* on every probe of provider p answers with status 200 and no call issued to
\* p fails, then p is eventually healthy and stays healthy.
C28_RecoveryIsLive ==
  \A p \in Providers(InitializeModels) :
    <>[][~ProbeFailsOn(p) /\ ~DispatchFailsOn(p)]_vars => <>[](isHealthy[p])

\* A provider that a failed call had marked unhealthy was probed with
\* status 200 afterwards and is healthy again.
C28_Witness ==
  /\ interval
  /\ lastProbe.status = "200"
  /\ isHealthy[lastProbe.model]
  /\ \E r \in Requests :
       LET called == Attempts(req[r].trace) IN
       \E k \in 1..(Len(called) - 1) : called[k] = lastProbe.model

\* C29: a load balancer over n >= 1 endpoints keeps currentIndex in 0..n-1
\* and returns the endpoints in list order, starting with the first and
\* wrapping around: the k-th call returns endpoint ((k-1) mod n) + 1, so any
\* n consecutive calls return each endpoint exactly once.
C29_RoundRobinInListOrder ==
  \A b \in DOMAIN loadBalancer :
    LET eps == loadBalancer[b].endpoints
        n == Len(eps) IN
    /\ loadBalancer[b].currentIndex \in 0..(n - 1)
    /\ loadBalancer[b].currentIndex = Len(returned) % n
    /\ \A k \in 1..Len(returned) : returned[k] = eps[((k - 1) % n) + 1]
    /\ \A k \in 1..(Len(returned) - n + 1) :
         \A i \in 1..n : Cardinality({j \in k..(k + n - 1) : returned[j] = eps[i]}) = 1

\* A balancer over three endpoints has gone round more than twice.
C29_Witness ==
  /\ Len(loadBalancer[TheBalancer].endpoints) = 3
  /\ Len(returned) = 7
  /\ loadBalancer[TheBalancer].currentIndex = 1
  /\ returned[4] = returned[1] /\ returned[7] = returned[1]

\* The status requests of the call that have ended, and those that showed
\* neither COMPLETED nor FAILED.
StatusPolls == Len(poll.seen) + (IF poll.outcome = "error" THEN 1 ELSE 0)
Neither(k) == \A j \in 1..k : poll.seen[j] \notin {"COMPLETED", "FAILED"}

\* What holds of the status requests of a call in every state: there are at
\* most maxAttempts; the first answer showing COMPLETED is the last one and
\* gives the job data, the first one showing FAILED is the last one and gives
\* 'Job failed'; 'Job timeout' is the outcome exactly of maxAttempts answers
\* that showed neither.
PollingIsBounded ==
  /\ StatusPolls + (IF poll.pc = "get" THEN 1 ELSE 0) <= poll.maxAttempts
  /\ \A k \in 1..Len(poll.seen) :
       /\ (poll.seen[k] = "COMPLETED" /\ Neither(k - 1)) =>
            (k = Len(poll.seen) /\ poll.pc = "done" /\ poll.outcome = "data")
       /\ (poll.seen[k] = "FAILED" /\ Neither(k - 1)) =>
            (k = Len(poll.seen) /\ poll.pc = "done" /\ poll.outcome = "Job failed")
  /\ (poll.pc = "done" /\ Len(poll.seen) = poll.maxAttempts
         /\ Neither(poll.maxAttempts)) =>
       poll.outcome = "Job timeout"
  /\ poll.outcome = "Job timeout" =>
       (Len(poll.seen) = poll.maxAttempts /\ Neither(poll.maxAttempts))

\* C30: a call of pollForCompletion always terminates, after at most
\* maxAttempts status requests: with the job data at the first answer showing
\* COMPLETED, with 'Job failed' at the first one showing FAILED, with
\* 'Job timeout' when maxAttempts answers have shown neither.
C30_PollingTerminates ==
  /\ []PollingIsBounded
  /\ [](poll.pc # "idle" => <>(poll.pc = "done"))

====
